---- MODULE Spec2Model ----
(***************************************************************************)
(* A model of the web-to-PDF scraper in src/main.go (the version with the  *)
(* timeout, lines 238-532): the asynchronous crawl driven by colly, the    *)
(* OnHTML callback that extracts a Page and discovers links, the           *)
(* completion handshake on the done channel, the sort and the synthesis    *)
(* of the PDF.                                                             *)
(*                                                                         *)
(* Strings are sequences of one-character strings, so that prefixes,       *)
(* splitting, parsing and byte-wise comparison are computed as the code    *)
(* computes them.                                                          *)
(***************************************************************************)
EXTENDS Integers, Sequences, FiniteSets, TLC

(***************************************************************************)
(* Bounds of the model and constants of the program.                       *)
(***************************************************************************)
\* the -depth flag of the run that is modelled (main.go:268 gives the default)
maxDepth == 1
\* c.Limit(&colly.LimitRule{Parallelism: 2}) (main.go:306)
Parallelism == 2
\* most goroutines colly can start in one run of the modelled site
MaxFetches == 6
\* longest article drawn as an input of the extraction/rendering pipeline
MaxElems == 3

(***************************************************************************)
(* Strings.                                                                *)
(***************************************************************************)
\* the characters the model uses, in ascending byte order
Alphabet ==
    << "\n", " ", "#", "-", ".", "/", "0", "1", "2", "3", "4", "5", "6", "7", "8", "9",
       ":", "B", "C", "H", "T", "[", "]",
       "a", "b", "c", "d", "e", "h", "i", "j", "k", "l", "m", "n", "o", "p", "r",
       "s", "t", "v", "x", "z" >>

\* the byte value of a character, up to an order-preserving renumbering
Code(ch) == CHOOSE i \in 1..Len(Alphabet) : Alphabet[i] = ch

\* Go's < on strings: byte-wise lexicographic comparison
RECURSIVE StrLess(_, _)
StrLess(s, t) ==
    IF t = << >> THEN FALSE
    ELSE IF s = << >> THEN TRUE
    ELSE IF Code(Head(s)) < Code(Head(t)) THEN TRUE
    ELSE IF Code(Head(s)) > Code(Head(t)) THEN FALSE
    ELSE StrLess(Tail(s), Tail(t))

\* strings.HasPrefix
HasPrefix(s, p) == Len(s) >= Len(p) /\ SubSeq(s, 1, Len(p)) = p

\* the rest of s from position i on
From(s, i) == SubSeq(s, i, Len(s))

\* the longest prefix of s that holds none of the characters in stop
RECURSIVE TakeUntil(_, _)
TakeUntil(s, stop) ==
    IF s = << >> \/ Head(s) \in stop THEN << >>
    ELSE << Head(s) >> \o TakeUntil(Tail(s), stop)

Letters == { "a", "b", "c", "d", "e", "h", "i", "j", "k", "l", "m", "n", "o", "p",
             "r", "s", "t", "v", "x", "z", "B", "C", "H", "T" }
Digits == { "0", "1", "2", "3", "4", "5", "6", "7", "8", "9" }
Whitespace == { " ", "\n" }

(***************************************************************************)
(* net/url: the scheme and the hostname of a parsed URL.                   *)
(***************************************************************************)
SchemeSep == << ":", "/", "/" >>

\* url.Parse(s).Scheme: the letters before the first ":" (empty when there is none)
SchemeOf(s) ==
    LET pre == TakeUntil(s, { ":", "/" })
    IN  IF pre # << >> /\ Len(pre) < Len(s) /\ s[Len(pre) + 1] = ":"
           /\ \A i \in 1..Len(pre) : pre[i] \in Letters
        THEN pre ELSE << >>

\* a filter that takes the hostname of the run's own origin, whatever the URL
HostnameOfOrigin(s) == << "e", "x", ".", "i", "o" >>

\* url.Parse(s).Hostname(): the authority after "scheme://" up to the path,
\* without the port
Hostname(s) ==
    LET sch  == SchemeOf(s)
        rest == IF sch = << >> THEN s ELSE From(s, Len(sch) + 2)
    IN  IF HasPrefix(rest, << "/", "/" >>)
        THEN TakeUntil(From(rest, 3), { "/", ":" })
        ELSE << >>

(***************************************************************************)
(* The run's flags and what main derives from them (main.go:278-286).      *)
(***************************************************************************)
Https == << "h", "t", "t", "p", "s" >>
ExHost == << "e", "x", ".", "i", "o" >>
EvilHost == << "e", "v", "i", "l", ".", "i", "o" >>

\* -url
baseURL == Https \o SchemeSep \o ExHost \o << "/", "d", "o", "c", "s" >>
\* parsedURL.Scheme
parsedScheme == SchemeOf(baseURL)
\* domain := parsedURL.Hostname()
domain == Hostname(baseURL)

UrlA == Https \o SchemeSep \o ExHost \o << "/", "a" >>
UrlB == Https \o SchemeSep \o ExHost \o << "/", "b" >>
UrlC == Https \o SchemeSep \o ExHost \o << "/", "c" >>
UrlN == Https \o SchemeSep \o ExHost \o << "/", "n" >>
UrlZ == Https \o SchemeSep \o ExHost \o << "/", "z" >>
UrlEvil == Https \o SchemeSep \o EvilHost \o << "/", "x" >>

(***************************************************************************)
(* The OnHTML callback's extraction (main.go:337-372).  An article is the  *)
(* sequence, in document order, of the elements inside one matched content *)
(* container: [tag, text, items], items being the <li> texts of a list.    *)
(***************************************************************************)
NL == "\n"

El(tag, text) == [tag |-> tag, text |-> text, items |-> << >>]
ListEl(tag, items) == [tag |-> tag, text |-> << >>, items |-> items]

\* strings.TrimSpace
RECURSIVE TrimLeft(_)
TrimLeft(s) == IF s # << >> /\ Head(s) \in Whitespace THEN TrimLeft(Tail(s)) ELSE s
RECURSIVE TrimRight(_)
TrimRight(s) ==
    IF s # << >> /\ s[Len(s)] \in Whitespace THEN TrimRight(SubSeq(s, 1, Len(s) - 1)) ELSE s
TrimSpace(s) == TrimRight(TrimLeft(s))

\* e.ChildText(selector): the texts of the matching elements, concatenated
RECURSIVE ChildText(_, _)
ChildText(elems, tags) ==
    IF elems = << >> THEN << >>
    ELSE (IF Head(elems).tag \in tags THEN Head(elems).text ELSE << >>)
         \o ChildText(Tail(elems), tags)

UntitledArticle ==
    << "U", "n", "t", "i", "t", "l", "e", "d", " ", "A", "r", "t", "i", "c", "l", "e" >>

\* the title with its fallbacks (main.go:338-344)
TitleOf(elems) ==
    LET t1 == TrimSpace(ChildText(elems, { "h1" }))
        t2 == TrimSpace(ChildText(elems, { "h2" }))
    IN  IF t1 # << >> THEN t1 ELSE IF t2 # << >> THEN t2 ELSE UntitledArticle

\* the heading texts collected last first
RECURSIVE HeadingsOfReversed(_)
HeadingsOfReversed(elems) ==
    IF elems = << >> THEN << >>
    ELSE HeadingsOfReversed(Tail(elems))
         \o (IF Head(elems).tag \in { "h2", "h3" } THEN << Head(elems).text >> ELSE << >>)

\* e.ForEach("h2, h3", ...): the heading texts in document order (main.go:351-353)
RECURSIVE HeadingsOf(_)
HeadingsOf(elems) ==
    IF elems = << >> THEN << >>
    ELSE (IF Head(elems).tag \in { "h2", "h3" } THEN << Head(elems).text >> ELSE << >>)
         \o HeadingsOf(Tail(elems))

\* fmt.Sprintf("%d", n) for n >= 0
DigitSeq == << "0", "1", "2", "3", "4", "5", "6", "7", "8", "9" >>
RECURSIVE Sprintd(_)
Sprintd(n) ==
    IF n < 10 THEN << DigitSeq[n + 1] >>
    ELSE Sprintd(n \div 10) \o << DigitSeq[(n % 10) + 1] >>

CodeBlockPrefix == << "[", "C", "o", "d", "e", " ", "B", "l", "o", "c", "k", " " >>

\* a placeholder numbered with len(codeBlocks) as it was before the append
PlaceholderFromZero(n) == CodeBlockPrefix \o Sprintd(n - 1) \o << "]", NL, NL >>

\* "[Code Block " + fmt.Sprintf("%d", n) + "]\n\n" (main.go:365)
Placeholder(n) == CodeBlockPrefix \o Sprintd(n) \o << "]", NL, NL >>

\* the bullet main.go:368 writes before each list item, and the blank after it
Bullet == << "*", " " >>

RECURSIVE ListLines(_)
ListLines(items) ==
    IF items = << >> THEN << >>
    ELSE Bullet \o Head(items) \o << NL >> \o ListLines(Tail(items))

\* e.ForEach("p, pre, h2, h3, ul, ol", ...): the content builder and the code
\* blocks after walking elems (main.go:356-372)
RECURSIVE Walk(_, _, _)
Walk(elems, content, codeBlocks) ==
    IF elems = << >> THEN [content |-> content, codeBlocks |-> codeBlocks]
    ELSE LET el == Head(elems)
         IN  CASE el.tag \in { "h2", "h3" } ->
                    Walk(Tail(elems), content \o << NL >> \o el.text \o << NL, NL >>,
                         codeBlocks)
               [] el.tag = "p" ->
                    Walk(Tail(elems), content \o el.text \o << NL, NL >>, codeBlocks)
               [] el.tag = "pre" ->
                    Walk(Tail(elems),
                         content \o Placeholder(Len(codeBlocks) + 1),
                         Append(codeBlocks, el.text))
               [] el.tag \in { "ul", "ol" } ->
                    Walk(Tail(elems), content \o ListLines(el.items) \o << NL >>,
                         codeBlocks)
               [] OTHER -> Walk(Tail(elems), content, codeBlocks)

\* the Page the callback appends (main.go:375-381)
ExtractPage(url, elems) ==
    LET w == Walk(elems, << >>, << >>)
    IN  [Title    |-> TitleOf(elems),
         Content  |-> w.content,
         URL      |-> url,
         Headings |-> HeadingsOf(elems),
         Code     |-> w.codeBlocks]

(***************************************************************************)
(* The synthesis of one chapter's content (main.go:486-511).               *)
(***************************************************************************)
\* strings.Split(s, "\n\n"): cut at each leftmost, non-overlapping blank line
RECURSIVE SplitParagraphs(_)
SplitParagraphs(s) ==
    LET cuts == { i \in 1..(Len(s) - 1) : s[i] = NL /\ s[i + 1] = NL }
    IN  IF cuts = { } THEN << s >>
        ELSE LET i == CHOOSE j \in cuts : \A k \in cuts : j <= k
             IN  << SubSeq(s, 1, i - 1) >> \o SplitParagraphs(From(s, i + 2))

RECURSIVE DecimalValue(_, _)
DecimalValue(ds, acc) ==
    IF ds = << >> THEN acc
    ELSE DecimalValue(Tail(ds), 10 * acc + (Code(Head(ds)) - Code("0")))

RECURSIVE TakeDigits(_)
TakeDigits(s) ==
    IF s = << >> \/ Head(s) \notin Digits THEN << >>
    ELSE << Head(s) >> \o TakeDigits(Tail(s))

RECURSIVE SkipSpaces(_)
SkipSpaces(s) == IF s # << >> /\ Head(s) = " " THEN SkipSpaces(Tail(s)) ELSE s

\* blockNum := 0; fmt.Sscanf(para, "[Code Block %d]", &blockNum), for a para that
\* has the prefix: the integer after the prefix, or 0 when there is none
ScanBlockNum(para) ==
    LET rest == SkipSpaces(From(para, Len(CodeBlockPrefix) + 1))
        neg  == rest # << >> /\ Head(rest) = "-"
        ds   == TakeDigits(IF neg THEN Tail(rest) ELSE rest)
    IN  IF ds = << >> THEN 0
        ELSE IF neg THEN 0 - DecimalValue(ds, 0) ELSE DecimalValue(ds, 0)

\* what one paragraph puts on the page: nothing, a Courier block on a gray fill
\* ("code"), or a regular paragraph ("body")
RenderPara(para, code) ==
    IF TrimSpace(para) = << >> THEN << >>
    ELSE IF HasPrefix(para, CodeBlockPrefix)
    THEN LET blockNum == ScanBlockNum(para)
         IN  IF blockNum > 0 /\ blockNum <= Len(code)
             THEN << [kind |-> "code", text |-> code[blockNum]] >>
             ELSE << >>
    ELSE << [kind |-> "body", text |-> para] >>

RECURSIVE RenderParas(_, _)
RenderParas(paras, code) ==
    IF paras = << >> THEN << >>
    ELSE RenderPara(Head(paras), code) \o RenderParas(Tail(paras), code)

\* the body of a chapter
RenderContent(page) == RenderParas(SplitParagraphs(page.Content), page.Code)

\* the table of contents (main.go:452-467): "%d. %s" and "%d.%d. %s"
TocOf(ps) ==
    [i \in 1..Len(ps) |->
        [chapterNum |-> i,
         title      |-> ps[i].Title,
         subs       |-> [j \in 1..Len(ps[i].Headings) |->
                            [chapterNum |-> i, sub |-> j, heading |-> ps[i].Headings[j]]]]]

\* the content pages (main.go:470-512)
ChaptersOf(ps) ==
    [i \in 1..Len(ps) |->
        [chapterNum |-> i,
         title      |-> ps[i].Title,
         source     |-> ps[i].URL,
         body       |-> RenderContent(ps[i])]]

(***************************************************************************)
(* sort.Slice(pages, func(i, j) bool { return pages[i].URL < pages[j].URL })*)
(* (main.go:437-439).  For a slice of at most 12 elements sort.Slice is an *)
(* insertion sort.                                                         *)
(***************************************************************************)
\* a comparison turned round
PageLessDescending(p, q) == StrLess(q.URL, p.URL)

\* the less function given to sort.Slice
PageLess(p, q) == StrLess(p.URL, q.URL)

\* move the element at position j down while it is less than its predecessor
RECURSIVE SinkDown(_, _)
SinkDown(s, j) ==
    IF j > 1 /\ PageLess(s[j], s[j - 1])
    THEN SinkDown([s EXCEPT ![j] = s[j - 1], ![j - 1] = s[j]], j - 1)
    ELSE s

RECURSIVE InsertionSort(_, _)
InsertionSort(s, i) == IF i > Len(s) THEN s ELSE InsertionSort(SinkDown(s, i), i + 1)

SortSlice(s) == InsertionSort(s, 2)

(***************************************************************************)
(* The site that is crawled.  A response is either "full" (the page with   *)
(* its content containers) or "bare" (a page with no div.Article/article). *)
(* Each container has its elements and the a[href] values inside it;       *)
(* outer holds the a[href] values outside every container.                 *)
(***************************************************************************)
LinkA == << "/", "a" >>
LinkB == << "/", "b" >>
LinkC == << "/", "c" >>
LinkN == << "/", "n" >>
LinkZ == << "/", "z" >>
LinkDocs == << "/", "d", "o", "c", "s" >>
LinkMail == << "m", "a", "i", "l", "t", "o", ":", "m", "e" >>

Container(elems, links) == [elems |-> elems, links |-> links]

DocsArticle ==
    Container(<< El("h1", << "d" >>), El("p", << "x" >>) >>,
              << LinkA, UrlEvil, LinkMail, LinkB, LinkN >>)
AArticle ==
    Container(<< El("h2", << "a" >>), El("pre", << "k" >>), El("p", << "x" >>) >>,
              << LinkC, LinkDocs >>)
BArticle ==
    Container(<< El("h1", << "b" >>), El("h2", << "s" >>), El("pre", << "k" >>),
                 El("h3", << "t" >>) >>,
              << UrlC >>)
CArticle == Container(<< El("p", << "x" >>) >>, << LinkA >>)

\* the parsed document a fetch of u returns
Doc(u, resp) ==
    IF resp = "bare" THEN [containers |-> << >>, outer |-> << LinkZ >>]
    ELSE CASE u = baseURL -> [containers |-> << DocsArticle >>, outer |-> << >>]
           \* /a nests an <article> inside its div.Article: two matches
           [] u = UrlA -> [containers |-> << AArticle, AArticle >>, outer |-> << >>]
           [] u = UrlB -> [containers |-> << BArticle >>, outer |-> << LinkZ >>]
           [] u = UrlC -> [containers |-> << CArticle >>, outer |-> << >>]
           \* /n has no content container, only a link outside of one
           [] u = UrlN -> [containers |-> << >>, outer |-> << LinkZ >>]
           [] OTHER -> [containers |-> << Container(<< El("p", << "x" >>) >>, << >>) >>,
                        outer |-> << >>]

\* what the server may answer for u
Responses(u) == IF u = baseURL THEN { "full", "bare" } ELSE { "full" }

(***************************************************************************)
(* The link filter of the callback (main.go:388-402): the URL handed to    *)
(* c.Visit for one href, as a sequence of zero or one URL.                 *)
(***************************************************************************)
HttpPrefix == << "h", "t", "t", "p" >>

\* fmt.Sprintf("%s://%s%s", parsedURL.Scheme, domain, link)
AbsoluteURL(link) == parsedScheme \o SchemeSep \o domain \o link

\* does the filter read visitedURLs for this href?
ReadsVisited(link) ==
    \/ HasPrefix(link, << "/" >>)
    \/ HasPrefix(link, HttpPrefix) /\ Hostname(link) = domain

LinkTarget(link, visited) ==
    IF HasPrefix(link, << "/" >>)
    THEN IF AbsoluteURL(link) \notin visited THEN << AbsoluteURL(link) >> ELSE << >>
    ELSE IF HasPrefix(link, HttpPrefix)
    THEN IF Hostname(link) = domain /\ link \notin visited THEN << link >> ELSE << >>
    ELSE << >>

(***************************************************************************)
(* colly.  c.Visit(u) scrapes u at depth 1 whoever calls it (only          *)
(* e.Request.Visit would pass the parent's depth + 1); the request check   *)
(* refuses a depth above MaxDepth, a hostname outside AllowedDomains and a *)
(* URL the collector's store already holds.                                *)
(***************************************************************************)
\* the depth c.Visit gives a request made from a page at depth parentDepth
CollectorVisitDepth(parentDepth) == 1

\* colly.MaxDepth(*maxDepth) and colly.AllowedDomains(domain) (main.go:295-299)
RequestAllowed(u, depth) ==
    /\ ~(maxDepth > 0 /\ maxDepth < depth)
    /\ Hostname(u) = domain

VARIABLES
    mpc,          \* where main is: "visit", "wait", "send", "sort", "render",
                  \* "output", "exit0", "fatal" (log.Fatal), "crashed" (runtime)
    tpc,          \* the timeout goroutine: "select", "send", "returned"
    deadline,     \* ctx.Done() is closed with DeadlineExceeded
    mu,           \* 0, or the goroutine that holds the mutex
    pages,        \* the page store
    visitedURLs,  \* main's map, as the set of its keys
    store,        \* colly's own visited storage
    procs,        \* the fetch goroutines colly started, in order of creation
    pdf,          \* what was drawn: [toc, chapters], or << >> before rendering
    artifact,     \* the file written: << pdf >>, or << >> when there is none
    snap,         \* << >>, or what the run looked like when the deadline fired
    arrival,      \* the page store as the callbacks left it, kept when it is sorted
    article,      \* pipeline input: the elements of one content container
    dpc,          \* pipeline: "parsed", "extracted", "split", "rendered"
    rec,          \* pipeline: the Page extracted from article
    paras,        \* pipeline: the paragraphs still to render
    out,          \* pipeline: what has been rendered
    href,         \* filter input: the href attribute of one a[href]
    fpc,          \* filter: "idle", "found", "filtered"
    handed        \* filter: the URL handed to c.Visit, << >> when there is none

crawlVars == << mpc, tpc, deadline, mu, pages, visitedURLs, store, procs, pdf,
                artifact, snap, arrival >>
docVars == << article, dpc, rec, paras, out >>
filterVars == << href, fpc, handed >>
vars == << mpc, tpc, deadline, mu, pages, visitedURLs, store, procs, pdf,
           artifact, snap, arrival, article, dpc, rec, paras, out, href, fpc, handed >>

G == 1..Len(procs)

\* has the process ended?
Exited == mpc \in { "exit0", "fatal", "crashed" }

\* the goroutines inside the limiter's Parallelism slots
InFlight == { g \in G : procs[g].pc = "fetching" }

\* c.Wait(): every wg.Add(1) of a scrape has met its wg.Done()
AllDone == \A g \in G : procs[g].pc = "done"

NewProc(u, depth) ==
    [url |-> u, depth |-> depth, pc |-> "queued", resp |-> "none", k |-> 0, li |-> 0,
     tgt |-> << >>]

Containers(g) == Doc(procs[g].url, procs[g].resp).containers
Links(g) == Containers(g)[procs[g].k].links

\* the callback has handled href li of container k: the next href, the next
\* matched container, or the end of the fetch goroutine
Advance(p, doc) ==
    IF p.k >= 1 /\ p.li < Len(doc.containers[p.k].links)
    THEN [p EXCEPT !.pc = "link", !.li = p.li + 1, !.tgt = << >>]
    ELSE IF p.k < Len(doc.containers)
    THEN [p EXCEPT !.pc = "check", !.k = p.k + 1, !.li = 0, !.tgt = << >>]
    ELSE [p EXCEPT !.pc = "done", !.tgt = << >>]

CrawlInit ==
    /\ mpc = "visit"
    /\ tpc = "select"
    /\ deadline = FALSE
    /\ mu = 0
    /\ pages = << >>
    /\ visitedURLs = { }
    /\ store = { }
    /\ procs = << >>
    /\ pdf = << >>
    /\ artifact = << >>
    /\ snap = << >>
    /\ arrival = << >>

DocIdle ==
    /\ article = << >>
    /\ dpc = "idle"
    /\ rec = << >>
    /\ paras = << >>
    /\ out = << >>

FilterIdle ==
    /\ href = << >>
    /\ fpc = "idle"
    /\ handed = << >>

Init == CrawlInit /\ DocIdle /\ FilterIdle

(***************************************************************************)
(* main: the first c.Visit (main.go:423-429).                              *)
(***************************************************************************)
MainVisit ==
    /\ mpc = "visit"
    /\ RequestAllowed(baseURL, CollectorVisitDepth(0))
    /\ baseURL \notin store
    /\ store' = store \cup { baseURL }
    /\ procs' = Append(procs, NewProc(baseURL, CollectorVisitDepth(0)))
    /\ mpc' = "wait"
    /\ UNCHANGED << tpc, deadline, mu, pages, visitedURLs, pdf, artifact, snap, arrival >>
    /\ UNCHANGED docVars
    /\ UNCHANGED filterVars

\* c.Visit(baseURL) returns an error: nothing was scraped, log.Fatal
MainVisitError ==
    /\ mpc = "visit"
    /\ mpc' = IF Len(pages) = 0 THEN "fatal" ELSE "wait"
    /\ UNCHANGED << tpc, deadline, mu, pages, visitedURLs, store, procs, pdf,
                    artifact, snap, arrival >>
    /\ UNCHANGED docVars
    /\ UNCHANGED filterVars

(***************************************************************************)
(* A fetch goroutine: the limiter, the request, then the OnError or OnHTML *)
(* callbacks (main.go:304-314, 331-404).                                   *)
(***************************************************************************)
SetProc(g, p) ==
    /\ procs' = [procs EXCEPT ![g] = p]

\* a collector without the LimitRule: every queued request starts at once
StartFetchUnlimited(g) ==
    /\ ~Exited
    /\ procs[g].pc = "queued"
    /\ SetProc(g, [procs[g] EXCEPT !.pc = "fetching"])
    /\ UNCHANGED << mpc, tpc, deadline, mu, pages, visitedURLs, store, pdf,
                    artifact, snap, arrival >>
    /\ UNCHANGED docVars
    /\ UNCHANGED filterVars

StartFetch(g) ==
    /\ ~Exited
    /\ procs[g].pc = "queued"
    /\ Cardinality(InFlight) < Parallelism
    /\ SetProc(g, [procs[g] EXCEPT !.pc = "fetching"])
    /\ UNCHANGED << mpc, tpc, deadline, mu, pages, visitedURLs, store, pdf,
                    artifact, snap, arrival >>
    /\ UNCHANGED docVars
    /\ UNCHANGED filterVars

\* an OnError that ends the run with log.Fatalf instead of printing
FetchErrorAborts(g) ==
    /\ ~Exited
    /\ procs[g].pc = "fetching"
    /\ SetProc(g, [procs[g] EXCEPT !.pc = "done"])
    /\ mpc' = "fatal"
    /\ UNCHANGED << tpc, deadline, mu, pages, visitedURLs, store, pdf, artifact,
                    snap, arrival >>
    /\ UNCHANGED docVars
    /\ UNCHANGED filterVars

\* the request fails: OnError prints, the goroutine ends
FetchError(g) ==
    /\ ~Exited
    /\ procs[g].pc = "fetching"
    /\ SetProc(g, [procs[g] EXCEPT !.pc = "done"])
    /\ UNCHANGED << mpc, tpc, deadline, mu, pages, visitedURLs, store, pdf,
                    artifact, snap, arrival >>
    /\ UNCHANGED docVars
    /\ UNCHANGED filterVars

\* the response arrives: OnHTML runs once per matched container, in order
FetchResponse(g) ==
    /\ ~Exited
    /\ procs[g].pc = "fetching"
    /\ \E resp \in Responses(procs[g].url) :
          SetProc(g, Advance([procs[g] EXCEPT !.resp = resp],
                             Doc(procs[g].url, resp)))
    /\ UNCHANGED << mpc, tpc, deadline, mu, pages, visitedURLs, store, pdf,
                    artifact, snap, arrival >>
    /\ UNCHANGED docVars
    /\ UNCHANGED filterVars

\* if visitedURLs[currentURL] { return } (main.go:332-335)
CheckVisited(g) ==
    /\ ~Exited
    /\ procs[g].pc = "check"
    /\ IF procs[g].url \in visitedURLs
       THEN SetProc(g, Advance([procs[g] EXCEPT !.li = Len(Links(g))],
                               Doc(procs[g].url, procs[g].resp)))
       ELSE SetProc(g, [procs[g] EXCEPT !.pc = "lock"])
    /\ UNCHANGED << mpc, tpc, deadline, mu, pages, visitedURLs, store, pdf,
                    artifact, snap, arrival >>
    /\ UNCHANGED docVars
    /\ UNCHANGED filterVars

\* the extraction is local to the callback; then mu.Lock() (main.go:337-374)
Lock(g) ==
    /\ ~Exited
    /\ procs[g].pc = "lock"
    /\ mu = 0
    /\ mu' = g
    /\ SetProc(g, [procs[g] EXCEPT !.pc = "append"])
    /\ UNCHANGED << mpc, tpc, deadline, pages, visitedURLs, store, pdf, artifact,
                    snap, arrival >>
    /\ UNCHANGED docVars
    /\ UNCHANGED filterVars

\* a callback that unlocks without having appended its Page
AppendPageDropped(g) ==
    /\ ~Exited
    /\ procs[g].pc = "append"
    /\ mu = g
    /\ mu' = 0
    /\ SetProc(g, [procs[g] EXCEPT !.pc = "mark"])
    /\ UNCHANGED << mpc, tpc, deadline, pages, visitedURLs, store, pdf, artifact,
                    snap, arrival >>
    /\ UNCHANGED docVars
    /\ UNCHANGED filterVars

\* pages = append(pages, Page{...}); mu.Unlock() (main.go:375-382)
AppendPage(g) ==
    /\ ~Exited
    /\ procs[g].pc = "append"
    /\ mu = g
    /\ pages' = Append(pages, ExtractPage(procs[g].url, Containers(g)[procs[g].k].elems))
    /\ mu' = 0
    /\ SetProc(g, [procs[g] EXCEPT !.pc = "mark"])
    /\ UNCHANGED << mpc, tpc, deadline, visitedURLs, store, pdf, artifact, snap, arrival >>
    /\ UNCHANGED docVars
    /\ UNCHANGED filterVars

\* visitedURLs[currentURL] = true (main.go:384)
MarkVisited(g) ==
    /\ ~Exited
    /\ procs[g].pc = "mark"
    /\ visitedURLs' = visitedURLs \cup { procs[g].url }
    /\ SetProc(g, Advance([procs[g] EXCEPT !.li = 0], Doc(procs[g].url, procs[g].resp)))
    /\ UNCHANGED << mpc, tpc, deadline, mu, pages, store, pdf, artifact, snap, arrival >>
    /\ UNCHANGED docVars
    /\ UNCHANGED filterVars

\* one a[href]: the filter, with its read of visitedURLs (main.go:388-399)
FilterLink(g) ==
    /\ ~Exited
    /\ procs[g].pc = "link"
    /\ LET t == LinkTarget(Links(g)[procs[g].li], visitedURLs)
       IN  IF t = << >>
           THEN SetProc(g, Advance(procs[g], Doc(procs[g].url, procs[g].resp)))
           ELSE SetProc(g, [procs[g] EXCEPT !.pc = "visit", !.tgt = t])
    /\ UNCHANGED << mpc, tpc, deadline, mu, pages, visitedURLs, store, pdf,
                    artifact, snap, arrival >>
    /\ UNCHANGED docVars
    /\ UNCHANGED filterVars

\* c.Visit(tgt), first half: the request check up to store.IsVisited
VisitCheck(g) ==
    /\ ~Exited
    /\ procs[g].pc = "visit"
    /\ LET u == procs[g].tgt[1]
       IN  IF RequestAllowed(u, CollectorVisitDepth(procs[g].depth)) /\ u \notin store
           THEN SetProc(g, [procs[g] EXCEPT !.pc = "spawn"])
           ELSE SetProc(g, Advance(procs[g], Doc(procs[g].url, procs[g].resp)))
    /\ UNCHANGED << mpc, tpc, deadline, mu, pages, visitedURLs, store, pdf,
                    artifact, snap, arrival >>
    /\ UNCHANGED docVars
    /\ UNCHANGED filterVars

\* c.Visit(tgt), second half: store.Visited, wg.Add(1), go c.fetch(...)
VisitSpawn(g) ==
    /\ ~Exited
    /\ procs[g].pc = "spawn"
    /\ Len(procs) < MaxFetches
    /\ store' = store \cup { procs[g].tgt[1] }
    /\ procs' = Append([procs EXCEPT ![g] = Advance(procs[g],
                                                    Doc(procs[g].url, procs[g].resp))],
                       NewProc(procs[g].tgt[1], CollectorVisitDepth(procs[g].depth)))
    /\ UNCHANGED << mpc, tpc, deadline, mu, pages, visitedURLs, pdf, artifact, snap, arrival >>
    /\ UNCHANGED docVars
    /\ UNCHANGED filterVars

(***************************************************************************)
(* The deadline and the goroutine that watches it (main.go:290-292,        *)
(* 406-420).                                                               *)
(***************************************************************************)
\* the context's timer fires
DeadlineFires ==
    /\ ~Exited
    /\ ~deadline
    /\ deadline' = TRUE
    /\ snap' = << [complete |-> mpc # "visit" /\ AllDone, pages |-> pages] >>
    /\ UNCHANGED << mpc, tpc, mu, pages, visitedURLs, store, procs, pdf, artifact,
                    arrival >>
    /\ UNCHANGED docVars
    /\ UNCHANGED filterVars

\* case <-ctx.Done(): print the message, then block in done <- true
WatcherTimesOut ==
    /\ ~Exited
    /\ tpc = "select"
    /\ deadline
    /\ tpc' = "send"
    /\ UNCHANGED << mpc, deadline, mu, pages, visitedURLs, store, procs, pdf,
                    artifact, snap, arrival >>
    /\ UNCHANGED docVars
    /\ UNCHANGED filterVars

(***************************************************************************)
(* main after the first Visit (main.go:431-531).                           *)
(***************************************************************************)
\* a main that goes on without c.Wait()
MainWaitSkipped ==
    /\ mpc = "wait"
    /\ mpc' = "send"
    /\ UNCHANGED << tpc, deadline, mu, pages, visitedURLs, store, procs, pdf,
                    artifact, snap, arrival >>
    /\ UNCHANGED docVars
    /\ UNCHANGED filterVars

\* c.Wait() returns
MainWait ==
    /\ mpc = "wait"
    /\ AllDone
    /\ mpc' = "send"
    /\ UNCHANGED << tpc, deadline, mu, pages, visitedURLs, store, procs, pdf,
                    artifact, snap, arrival >>
    /\ UNCHANGED docVars
    /\ UNCHANGED filterVars

\* done <- true meets case <-done of the watcher's select: done is unbuffered,
\* the send completes only with the watcher receiving
MainSendsDone ==
    /\ mpc = "send"
    /\ tpc = "select"
    /\ mpc' = "sort"
    /\ tpc' = "returned"
    /\ UNCHANGED << deadline, mu, pages, visitedURLs, store, procs, pdf, artifact,
                    snap, arrival >>
    /\ UNCHANGED docVars
    /\ UNCHANGED filterVars

\* mu.Lock(); sort.Slice(pages, ...); mu.Unlock()
MainSort ==
    /\ mpc = "sort"
    /\ mu = 0
    /\ arrival' = pages
    /\ pages' = SortSlice(pages)
    /\ mpc' = "render"
    /\ UNCHANGED << tpc, deadline, mu, visitedURLs, store, procs, pdf, artifact, snap >>
    /\ UNCHANGED docVars
    /\ UNCHANGED filterVars

\* the table of contents and the content pages
MainRender ==
    /\ mpc = "render"
    /\ pdf' = << [toc |-> TocOf(pages), chapters |-> ChaptersOf(pages)] >>
    /\ mpc' = "output"
    /\ UNCHANGED << tpc, deadline, mu, pages, visitedURLs, store, procs, artifact,
                    snap, arrival >>
    /\ UNCHANGED docVars
    /\ UNCHANGED filterVars

\* os.MkdirAll and pdf.OutputFileAndClose succeed
MainOutput ==
    /\ mpc = "output"
    /\ artifact' = pdf
    /\ mpc' = "exit0"
    /\ UNCHANGED << tpc, deadline, mu, pages, visitedURLs, store, procs, pdf, snap, arrival >>
    /\ UNCHANGED docVars
    /\ UNCHANGED filterVars

\* os.MkdirAll or pdf.OutputFileAndClose fails: log.Fatal
MainOutputFails ==
    /\ mpc = "output"
    /\ mpc' = "fatal"
    /\ UNCHANGED << tpc, deadline, mu, pages, visitedURLs, store, procs, pdf,
                    artifact, snap, arrival >>
    /\ UNCHANGED docVars
    /\ UNCHANGED filterVars

(***************************************************************************)
(* What the Go runtime may do.                                             *)
(***************************************************************************)
\* goroutine g is about to write the map visitedURLs, without the mutex
WritesMap(g) == procs[g].pc = "mark"

\* goroutine g is about to read the map visitedURLs, without the mutex
ReadsMap(g) ==
    \/ procs[g].pc = "check"
    \/ procs[g].pc = "link" /\ ReadsVisited(Links(g)[procs[g].li])

\* two goroutines access the map at once, one of them writing
MapRace ==
    \E g, h \in G : g # h /\ WritesMap(g) /\ (WritesMap(h) \/ ReadsMap(h))

\* the runtime catches the concurrent map access: fatal error, exit status 2
MapAccessFatal ==
    /\ ~Exited
    /\ MapRace
    /\ mpc' = "crashed"
    /\ UNCHANGED << tpc, deadline, mu, pages, visitedURLs, store, procs, pdf,
                    artifact, snap, arrival >>
    /\ UNCHANGED docVars
    /\ UNCHANGED filterVars

\* main and the watcher both block sending on done and nobody receives
BothBlockedOnDone == mpc = "send" /\ tpc = "send"

\* the runtime finds every goroutine asleep: fatal error, exit status 2
\* (it may also never notice, and the process hangs)
DeadlockFatal ==
    /\ BothBlockedOnDone
    /\ mpc' = "crashed"
    /\ UNCHANGED << tpc, deadline, mu, pages, visitedURLs, store, procs, pdf,
                    artifact, snap, arrival >>
    /\ UNCHANGED docVars
    /\ UNCHANGED filterVars

Next ==
    \/ MainVisit
    \/ MainVisitError
    \/ \E g \in G : StartFetch(g)
    \/ \E g \in G : FetchError(g)
    \/ \E g \in G : FetchResponse(g)
    \/ \E g \in G : CheckVisited(g)
    \/ \E g \in G : Lock(g)
    \/ \E g \in G : AppendPage(g)
    \/ \E g \in G : MarkVisited(g)
    \/ \E g \in G : FilterLink(g)
    \/ \E g \in G : VisitCheck(g)
    \/ \E g \in G : VisitSpawn(g)
    \/ DeadlineFires
    \/ WatcherTimesOut
    \/ MainWait
    \/ MainSendsDone
    \/ MainSort
    \/ MainRender
    \/ MainOutput
    \/ MainOutputFails
    \/ MapAccessFatal
    \/ DeadlockFatal

Spec == Init /\ [][Next]_vars

(***************************************************************************)
(* The extraction and rendering of one article, step by step: the callback *)
(* extracts a Page from the elements of a container (main.go:337-381), and *)
(* the synthesis splits its content and renders paragraph after paragraph  *)
(* (main.go:487-511).  The article is an input, drawn from every sequence  *)
(* of at most MaxElems of the elements below.                              *)
(***************************************************************************)
ElemChoices ==
    { El("p", << "x" >>),
      El("p", << "x", NL >>),
      El("p", CodeBlockPrefix \o << "1", "]" >>),
      El("h2", << "T" >>),
      El("h3", << "H" >>),
      El("pre", << "k" >>),
      El("pre", << >>),
      ListEl("ul", << << "i" >> >>),
      ListEl("ul", << >>) }

Articles == UNION { [1..n -> ElemChoices] : n \in 0..MaxElems }

DocInit ==
    /\ CrawlInit
    /\ article \in Articles
    /\ dpc = "parsed"
    /\ rec = << >>
    /\ paras = << >>
    /\ out = << >>
    /\ FilterIdle

\* the callback builds the Page
DocExtract ==
    /\ dpc = "parsed"
    /\ rec' = << ExtractPage(baseURL, article) >>
    /\ dpc' = "extracted"
    /\ UNCHANGED << article, paras, out >>
    /\ UNCHANGED crawlVars
    /\ UNCHANGED filterVars

\* paragraphs := strings.Split(page.Content, "\n\n")
DocSplit ==
    /\ dpc = "extracted"
    /\ paras' = SplitParagraphs(rec[1].Content)
    /\ dpc' = "rendering"
    /\ UNCHANGED << article, rec, out >>
    /\ UNCHANGED crawlVars
    /\ UNCHANGED filterVars

\* one turn of the loop over the paragraphs
DocRenderPara ==
    /\ dpc = "rendering"
    /\ paras # << >>
    /\ out' = out \o RenderPara(Head(paras), rec[1].Code)
    /\ paras' = Tail(paras)
    /\ UNCHANGED << article, dpc, rec >>
    /\ UNCHANGED crawlVars
    /\ UNCHANGED filterVars

\* the loop ends
DocRenderDone ==
    /\ dpc = "rendering"
    /\ paras = << >>
    /\ dpc' = "rendered"
    /\ UNCHANGED << article, rec, paras, out >>
    /\ UNCHANGED crawlVars
    /\ UNCHANGED filterVars

DocNext == DocExtract \/ DocSplit \/ DocRenderPara \/ DocRenderDone

SpecDoc == DocInit /\ [][DocNext]_vars

(***************************************************************************)
(* The link filter on one href (main.go:387-403).  The attribute is an     *)
(* input: a prefix, a host and a path, put together; visitedURLs is any    *)
(* set of the URLs the callbacks may have marked.                          *)
(***************************************************************************)
HrefPrefixes ==
    { << >>, << "/" >>, << "/", "/" >>, Https \o SchemeSep,
      HttpPrefix \o SchemeSep,
      << "m", "a", "i", "l", "t", "o", ":" >>,
      << "j", "a", "v", "a", "s", "c", "r", "i", "p", "t", ":" >>,
      << "#" >> }
HrefHosts == { << >>, ExHost, EvilHost }
HrefPaths == { << >>, << "/", "a" >>, << "/", "c" >> }

RawLinks == { p \o h \o t : p \in HrefPrefixes, h \in HrefHosts, t \in HrefPaths }

FilterInit ==
    /\ mpc = "visit"
    /\ tpc = "select"
    /\ deadline = FALSE
    /\ mu = 0
    /\ pages = << >>
    /\ visitedURLs \in SUBSET { UrlA, UrlC }
    /\ store = { }
    /\ procs = << >>
    /\ pdf = << >>
    /\ artifact = << >>
    /\ snap = << >>
    /\ arrival = << >>
    /\ DocIdle
    /\ href \in RawLinks
    /\ fpc = "found"
    /\ handed = << >>

\* the body of e.ForEach("a[href]", ...) for this href, up to c.Visit
FilterHref ==
    /\ fpc = "found"
    /\ handed' = LinkTarget(href, visitedURLs)
    /\ fpc' = "filtered"
    /\ UNCHANGED href
    /\ UNCHANGED crawlVars
    /\ UNCHANGED docVars

FilterNext == FilterHref

SpecFilter == FilterInit /\ [][FilterNext]_vars

(***************************************************************************)
(* The site as a graph, for the statements about hop distance.             *)
(***************************************************************************)
RECURSIVE TargetsOf(_)
TargetsOf(links) ==
    IF links = << >> THEN { }
    ELSE { LinkTarget(Head(links), { })[i] : i \in 1..Len(LinkTarget(Head(links), { })) }
         \cup TargetsOf(Tail(links))

\* the URLs the callback submits from a page at u, whatever was visited before
SiteLinks(u) ==
    UNION { UNION { TargetsOf(Doc(u, r).containers[k].links) :
                      k \in 1..Len(Doc(u, r).containers) } : r \in Responses(u) }

\* the URLs at hop distance at most n from the origin
RECURSIVE WithinHops(_)
WithinHops(n) ==
    IF n = 0 THEN { baseURL }
    ELSE WithinHops(n - 1) \cup UNION { SiteLinks(u) : u \in WithinHops(n - 1) }

\* the goroutines whose request has been dispatched
Started == { g \in G : procs[g].pc # "queued" }

PageURLs == { pages[i].URL : i \in 1..Len(pages) }

\* "scheme://host/" of the origin
OriginPrefix == Https \o SchemeSep \o ExHost \o << "/" >>

(***************************************************************************)
(* The claims.                                                             *)
(***************************************************************************)

\* C1: every URL is fetched at most once in a run and the page store holds at
\* most one Page per URL, however the discoveries of the URL interleave.
C1_Dedup ==
    /\ \A g, h \in G : procs[g].url = procs[h].url => g = h
    /\ \A i, j \in 1..Len(pages) : pages[i].URL = pages[j].URL => i = j

\* C2: no URL farther than maxDepth hops from the origin is fetched, and none
\* has a Page in the store.
C2_DepthBound ==
    /\ \A g \in Started : procs[g].url \in WithinHops(maxDepth)
    /\ PageURLs \subseteq WithinHops(maxDepth)

\* C3: every URL submitted, fetched or recorded is on the origin's host; the
\* cross-domain link of the origin page is never visited.
C3_DomainBound ==
    /\ \A g \in G : HasPrefix(procs[g].url, OriginPrefix)
    /\ \A u \in store \cup PageURLs : HasPrefix(u, OriginPrefix)
    /\ UrlEvil \notin store

\* the origin page, with its cross-domain link, and the two same-domain pages
\* it links to were fetched and recorded, and the run ended
C3_Witness ==
    /\ mpc = "exit0"
    /\ procs[1].resp = "full"
    /\ { baseURL, UrlA, UrlB } \subseteq PageURLs

\* the deadline fired before the crawl was over
TimedOutEarly == snap # << >> /\ ~snap[1].complete

\* C4: when the deadline fires before the crawl is over, main does not stay
\* blocked: the run ends with exit code zero and an artifact that holds only
\* the Pages collected before the deadline.
C4_TimeoutPartialCompletion ==
    TimedOutEarly =>
        /\ ~BothBlockedOnDone
        /\ mpc = "exit0" =>
              /\ artifact # << >>
              /\ { artifact[1].chapters[i].source : i \in 1..Len(artifact[1].chapters) }
                    \subseteq { snap[1].pages[i].URL : i \in 1..Len(snap[1].pages) }

\* the pages have been sorted
Sorted == mpc \in { "render", "output", "exit0" }

\* s and t hold the same records, each as often
SameRecords(s, t) ==
    /\ Len(s) = Len(t)
    /\ \A x \in { s[i] : i \in 1..Len(s) } \cup { t[i] : i \in 1..Len(t) } :
          Cardinality({ i \in 1..Len(s) : s[i] = x })
              = Cardinality({ i \in 1..Len(t) : t[i] = x })

\* C5: whatever order the callbacks appended the Pages in, the chapters are
\* those Pages in ascending order of URL, and a Page's chapter number, in the
\* table of contents and in its heading, is its 1-based position in that order.
C5_Ordering ==
    /\ Sorted =>
          /\ SameRecords(arrival, pages)
          /\ \A i, j \in 1..Len(pages) : i < j => ~StrLess(pages[j].URL, pages[i].URL)
    /\ pdf # << >> =>
          /\ Len(pdf[1].toc) = Len(pages) /\ Len(pdf[1].chapters) = Len(pages)
          /\ \A i \in 1..Len(pages) :
                /\ pdf[1].toc[i].chapterNum = i
                /\ pdf[1].toc[i].title = pages[i].Title
                /\ pdf[1].chapters[i].chapterNum = i
                /\ pdf[1].chapters[i].source = pages[i].URL
                /\ pdf[1].chapters[i].title = pages[i].Title

\* the run ended with three chapters whose Pages had arrived in another order
C5_Witness ==
    /\ mpc = "exit0"
    /\ Len(pages) >= 3
    /\ arrival # pages
    /\ artifact = pdf

\* C6: a crawl that ends with no Page aborts before the synthesis, and writes
\* no artifact.
C6_ZeroPagesFatal ==
    /\ mpc \in { "render", "output", "exit0" } => Len(pages) > 0
    /\ artifact # << >> => Len(artifact[1].chapters) > 0

\* the texts of the <pre> elements of an article, in document order
RECURSIVE PreTexts(_)
PreTexts(elems) ==
    IF elems = << >> THEN << >>
    ELSE (IF Head(elems).tag = "pre" THEN << Head(elems).text >> ELSE << >>)
         \o PreTexts(Tail(elems))

IsCode(r) == r.kind = "code"

\* does s hold the placeholder prefix anywhere?
HoldsPlaceholder(s) ==
    \E i \in 1..Len(s) : HasPrefix(From(s, i), CodeBlockPrefix)

\* C7: every <pre> block of an article is rendered exactly once, as a code
\* region with exactly its text, which is not empty; no placeholder is rendered
\* as body text, and none is dropped.
C7_CodeBlockRoundTrip ==
    dpc = "rendered" =>
        /\ rec[1].Code = PreTexts(article)
        /\ \A i \in 1..Len(rec[1].Code) : rec[1].Code[i] # << >>
        /\ LET codeOut == SelectSeq(out, IsCode)
           IN  /\ Len(codeOut) = Len(rec[1].Code)
               /\ \A i \in 1..Len(codeOut) : codeOut[i].text = rec[1].Code[i]
        /\ \A i \in 1..Len(out) : out[i].kind = "body" => ~HoldsPlaceholder(out[i].text)

\* C8: once the deadline has fired, no request that had not started is
\* dispatched.
C8_NoDispatchAfterDeadline == [][deadline => Started' \subseteq Started]_vars

\* C9: a discovered URL that is handed to the collector is already marked in
\* visitedURLs.
C9_MarkedAtDiscovery ==
    /\ \A g \in G : procs[g].pc \in { "visit", "spawn" } => procs[g].tgt[1] \in visitedURLs
    /\ \A g \in G : procs[g].url # baseURL => procs[g].url \in visitedURLs

\* C10: no callback writes visitedURLs or pages while another callback reads or
\* writes it.
C10_NoConcurrentAccess ==
    /\ ~MapRace
    /\ \A g, h \in G : procs[g].pc = "append" /\ procs[h].pc = "append" => g = h

\* the fetch of goroutine g ended in OnError
Failed(g) == procs[g].pc = "done" /\ procs[g].resp = "none"

\* the step in which the fetch of goroutine g fails
FailsNow(g) ==
    procs[g].pc = "fetching" /\ procs'[g].pc = "done" /\ procs'[g].resp = "none"

\* the synthesis rendered one chapter per Page of the store, in its order
RendersStore ==
    /\ Len(artifact[1].chapters) = Len(pages)
    /\ \A i \in 1..Len(pages) : artifact[1].chapters[i].source = pages[i].URL

\* what holds in every state, whatever fetches have failed
C11_AfterFailure ==
    /\ \A g \in G : Failed(g) => procs[g].url \in store
    /\ \A g \in G : Failed(g) /\ procs[g].url # baseURL /\ mpc = "exit0" => RendersStore

\* C11: the failure of a fetch of a URL other than the origin is only logged:
\* the step adds no Page, changes neither the page store, the visited set, the
\* collector's storage nor any other goroutine, starts no request and does not
\* end the run; the URL stays marked in the collector's storage and no c.Visit
\* of it is admitted after the failure; a run that ends renders the Pages of
\* the fetches that succeeded.
C11_FetchErrorOnlyLogged ==
    /\ []C11_AfterFailure
    /\ [][\A g \in G : procs[g].url # baseURL /\ FailsNow(g) =>
              /\ pages' = pages
              /\ visitedURLs' = visitedURLs
              /\ store' = store
              /\ mpc' = mpc
              /\ Len(procs') = Len(procs)
              /\ \A h \in G \ { g } : procs'[h] = procs[h]]_vars
    /\ [][\A g, h \in G : Failed(g) /\ procs[h].pc = "visit"
                               /\ procs[h].tgt[1] = procs[g].url =>
              procs'[h].pc # "spawn"]_vars

\* the fetch of /a failed, and the run ended with the chapters of the origin
\* and of /b
C11_Witness ==
    /\ mpc = "exit0"
    /\ \E g \in G : Failed(g) /\ procs[g].url = UrlA
    /\ { baseURL, UrlB } \subseteq PageURLs
    /\ UrlA \notin PageURLs
    /\ Len(artifact[1].chapters) = Len(pages)

\* the frontier was exhausted, with no fetch in flight, before any deadline fired
NaturalCompletion == mpc # "visit" /\ AllDone /\ (snap = << >> \/ snap[1].complete)

\* C12: once the frontier is exhausted with no fetch in flight and the deadline
\* not fired, the watcher never ends up blocked in its own send on done: it can
\* still receive main's completion signal, and has received it when main is in
\* the synthesis.
C12_NaturalCompletion ==
    NaturalCompletion =>
        /\ tpc # "send"
        /\ mpc \in { "sort", "render", "output", "exit0" } => tpc = "returned"

\* main is past the crawl: about to sort, rendering, writing, or done
InSynthesis == mpc \in { "sort", "render", "output", "exit0" }

\* C13: once main is past the crawl, whether or not the deadline fired during
\* it, every fetch goroutine has ended, and from then on no step appends a Page
\* or marks a URL: the visited set does not change, and the page store changes
\* only by the sort, which keeps its records.
C13_FrozenBeforeSynthesis ==
    /\ [](InSynthesis => \A g \in G : procs[g].pc = "done")
    /\ [][InSynthesis =>
              /\ visitedURLs' = visitedURLs
              /\ procs' = procs
              /\ SameRecords(pages, pages')
              /\ mpc # "sort" => pages' = pages]_vars

\* the deadline fired during the crawl, and the run still ended with the
\* synthesis of several Pages
C13_Witness ==
    /\ mpc = "exit0"
    /\ TimedOutEarly
    /\ Len(pages) >= 2
    /\ Cardinality(visitedURLs) >= 2

RootRelative(link) == HasPrefix(link, << "/" >>) /\ ~HasPrefix(link, << "/", "/" >>)
SchemeRelative(link) == HasPrefix(link, << "/", "/" >>)
FragmentOnly(link) == HasPrefix(link, << "#" >>)
NonWebScheme(link) ==
    SchemeOf(link) \in { << "m", "a", "i", "l", "t", "o" >>,
                         << "j", "a", "v", "a", "s", "c", "r", "i", "p", "t" >> }

\* C14: the filter hands a URL to c.Visit only for a root-relative href, as the
\* origin's scheme and host followed by the href, or for an href with an
\* explicit scheme whose hostname is the origin's, as it stands; for a mailto:,
\* javascript:, fragment-only or scheme-relative href it hands over nothing.
C14_FilterAdmits ==
    fpc = "filtered" =>
        /\ handed # << >> =>
              \/ RootRelative(href) /\ handed[1] = Https \o SchemeSep \o ExHost \o href
              \/ SchemeOf(href) # << >> /\ Hostname(href) = ExHost /\ handed[1] = href
        /\ NonWebScheme(href) \/ FragmentOnly(href) \/ SchemeRelative(href) =>
              handed = << >>

\* C15: at no time are more than 2 fetches in flight.
C15_BoundedParallelism == Cardinality(InFlight) <= 2

\* two fetches are in flight and a third request waits for a slot
C15_Witness ==
    /\ Cardinality(InFlight) = 2
    /\ \E g \in G : procs[g].pc = "queued"

\* the numbers that follow each occurrence of the placeholder prefix in s, in
\* the order of the occurrences
RECURSIVE PlaceholderNumbers(_)
PlaceholderNumbers(s) ==
    IF s = << >> THEN << >>
    ELSE (IF HasPrefix(s, CodeBlockPrefix)
          THEN << DecimalValue(TakeDigits(From(s, Len(CodeBlockPrefix) + 1)), 0) >>
          ELSE << >>)
         \o PlaceholderNumbers(Tail(s))

\* does a text of the article itself hold the placeholder prefix?
OwnPlaceholderText(elems) ==
    \E i \in 1..Len(elems) :
        \/ elems[i].tag # "pre" /\ HoldsPlaceholder(elems[i].text)
        \/ \E j \in 1..Len(elems[i].items) : HoldsPlaceholder(elems[i].items[j])

\* the placeholders of Page r are numbered 1, 2, ... up to the number of its
\* code blocks
NumberedFromOne(r) ==
    LET ns == PlaceholderNumbers(r.Content)
    IN  /\ Len(ns) = Len(r.Code)
        /\ \A i \in 1..Len(ns) : ns[i] = i

HeadingSegment(h) == << NL >> \o h \o << NL, NL >>

\* the first position from i on at which pat occurs in s, 0 when there is none
RECURSIVE FindFrom(_, _, _)
FindFrom(s, pat, i) ==
    IF i + Len(pat) - 1 > Len(s) THEN 0
    ELSE IF SubSeq(s, i, i + Len(pat) - 1) = pat THEN i
    ELSE FindFrom(s, pat, i + 1)

\* the segments of the headings hs occur in s from i on, one after the other
RECURSIVE SegmentsInOrder(_, _, _)
SegmentsInOrder(hs, s, i) ==
    IF hs = << >> THEN TRUE
    ELSE LET at == FindFrom(s, HeadingSegment(Head(hs)), i)
         IN  at # 0 /\ SegmentsInOrder(Tail(hs), s, at + Len(HeadingSegment(Head(hs))))

\* entry is the table-of-contents entry of Page r as chapter n: its sub-entries
\* are the headings of r, numbered n.1, n.2, ... in their order
ListsHeadings(entry, r, n) ==
    /\ Len(entry.subs) = Len(r.Headings)
    /\ \A j \in 1..Len(r.Headings) :
          entry.subs[j] = [chapterNum |-> n, sub |-> j, heading |-> r.Headings[j]]

\* C17: the headings of every Page occur, in their order, among the heading
\* segments written into its content, and the table of contents lists them,
\* in that order, as the sub-entries n.1, n.2, ... of the Page's chapter n.
C17_HeadingsConsistent ==
    /\ \A i \in 1..Len(pages) : SegmentsInOrder(pages[i].Headings, pages[i].Content, 1)
    /\ pdf # << >> =>
          \A i \in 1..Len(pages) : ListsHeadings(pdf[1].toc[i], pages[i], i)
    /\ rec # << >> =>
          /\ SegmentsInOrder(rec[1].Headings, rec[1].Content, 1)
          /\ ListsHeadings(TocOf(rec)[1], rec[1], 1)

\* the run ended with a table of contents in which a chapter other than the
\* first has two sub-entries
C17_Witness ==
    /\ mpc = "exit0"
    /\ \E i \in 2..Len(pages) :
          /\ Len(pages[i].Headings) = 2
          /\ pages[i].Headings[1] # pages[i].Headings[2]
          /\ Len(artifact[1].toc[i].subs) = 2

\* C18: the handshake on done cannot deadlock: in no reachable state are main
\* and the watcher both blocked sending on done, whenever the deadline fires.
C18_NoHandshakeDeadlock == ~(mpc = "send" /\ tpc = "send")

\* u is the target of an a[href] inside a content container of a page whose
\* Page is in the store
LinkedFromRecorded(u) == \E i \in 1..Len(pages) : u \in SiteLinks(pages[i].URL)

\* C19: links are followed only from pages that produced a Page: a callback
\* that is handling links has its own Page in the store, every URL it hands to
\* c.Visit, and every URL other than the origin that the collector took or
\* fetches, is the target of a link inside a content container of a page whose
\* Page is in the store; a fetched page without a content container has no
\* Page, and the links outside the containers are never followed.
C19_LinksFromRecordedPages ==
    /\ \A g \in G : procs[g].pc \in { "link", "visit", "spawn" } =>
          procs[g].url \in PageURLs
    /\ \A g \in G : procs[g].pc \in { "visit", "spawn" } =>
          /\ procs[g].tgt[1] \in SiteLinks(procs[g].url)
          /\ LinkedFromRecorded(procs[g].tgt[1])
    /\ \A g \in G : procs[g].url # baseURL => LinkedFromRecorded(procs[g].url)
    /\ \A u \in store \ { baseURL } : LinkedFromRecorded(u)
    /\ \A g \in G : procs[g].resp # "none" /\ Containers(g) = << >> =>
          procs[g].url \notin PageURLs
    /\ UrlZ \notin store

\* the run ended after /n, which has no content container but a link outside
\* of one, was fetched, and after /b, which has a link outside its container,
\* and /c, found on /a and /b, were recorded
C19_Witness ==
    /\ mpc = "exit0"
    /\ \E g \in G : procs[g].url = UrlN /\ procs[g].resp = "full"
    /\ { UrlB, UrlC } \subseteq PageURLs
    /\ UrlN \notin PageURLs
====
